---- MODULE Spec2Model ----
(***************************************************************************)
(* A model of src/d8_methods.cpp: find_watersheds (the priority flood      *)
(* with watershed labels) and the dimension guard and cell loop of d8_SPI  *)
(* and d8_CTI.                                                             *)
(*                                                                         *)
(* A grid (float_2d, int_2d, bool_2d) is a record                          *)
(*   [width, height, no_data, data]                                        *)
(* whose data is a function on the cells <<x, y>> with 0 <= x < width and  *)
(* 0 <= y < height.  The container itself, the neighbour offsets dx/dy and *)
(* the comparator of grid_cellz_pq are declared in headers that are not    *)
(* part of the sources; they are modelled from the specification.          *)
(***************************************************************************)
EXTENDS Integers, Sequences, FiniteSets, TLC

\* Bounds of the model.
MaxDim == 3         \* width and height of an elevation grid range over 0..MaxDim
MaxCells == 9       \* an elevation grid has at most MaxCells cells
MaxElev == 1        \* elevations range over 0..MaxElev
MaxIdxDim == 2      \* width and height of the SPI/CTI input grids
MaxIdxCells == 4    \* the SPI/CTI input grids have at most MaxIdxCells cells

\* labels.no_data=-1
LABEL_NO_DATA == -1
\* result.no_data=-1
INDEX_NO_DATA == -1

VARIABLES
  fn,                 \* the function that was called
  pc,                 \* the position in it: "start", "loop", "done", "error", "crashed"
  elevations,         \* float_2d &elevations
  alter_elevations,   \* bool alter_elevations
  labels,             \* int_2d &labels
  closed,             \* bool_2d closed
  open,               \* grid_cellz_pq open, the heap's vector
  meander,            \* the stack meander, top at the end
  clabel,             \* int clabel
  processed_cells, pitc, openc,
  input,              \* the elevation data find_watersheds was called with
  discoverer,         \* for each cell closed in the neighbour loop, the cell c that closed it
  oob,                \* TRUE once a coordinate outside its grid has been read or written
  flow_accumulation,  \* const float_2d &flow_accumulation
  percent_slope,      \* const float_2d &percent_slope
  result,             \* float_2d &result
  visited             \* the cells the (parallel) x,y loop of d8_SPI/d8_CTI has done

vars == <<fn, pc, elevations, alter_elevations, labels, closed, open, meander,
          clabel, processed_cells, pitc, openc, input, discoverer, oob,
          flow_accumulation, percent_slope, result, visited>>

fwvars == <<elevations, alter_elevations, labels, closed, open, meander,
            clabel, processed_cells, pitc, openc, input, discoverer, oob>>

idxvars == <<flow_accumulation, percent_slope, result, visited>>

----------------------------------------------------------------------------
\* The grid container and the constants of the headers.

Cells(w, h) == (0..(w-1)) \X (0..(h-1))

Grid(w, h, nd, d) == [width |-> w, height |-> h, no_data |-> nd, data |-> d]

EmptyGrid == Grid(0, 0, 0, <<>>)

in_grid(g, x, y) == x >= 0 /\ y >= 0 /\ x < g.width /\ y < g.height

\* copyprops adopts the other grid's dimensions; cells that did not exist
\* before hold the value fresh.
copyprops(g, other, fresh) ==
  [g EXCEPT !.width = other.width, !.height = other.height,
            !.data = [c \in Cells(other.width, other.height) |->
                        IF c \in DOMAIN g.data THEN g.data[c] ELSE fresh]]

init(g, v) == [g EXCEPT !.data = [c \in DOMAIN g.data |-> v]]

\* The neighbour offsets, n = 1..8.
dx == <<-1, -1, 0, 1, 1, 1, 0, -1>>
dy == <<0, -1, -1, -1, 0, 1, 1, 1>>

grid_cellz(x, y, z) == [x |-> x, y |-> y, z |-> z]

\* grid_cellz_pq is a std::priority_queue over a std::vector: the vector is
\* a binary heap (index 0 first), kept by push_heap and pop_heap.  The
\* comparator puts the cell of the highest elevation on top.
cell_less(a, b) == a.z < b.z

At(q, i) == q[i + 1]

Put(q, i, v) == [q EXCEPT ![i + 1] = v]

\* __push_heap: move the hole up while its parent compares less than value.
RECURSIVE push_heap_from(_, _, _, _)
push_heap_from(q, holeIndex, topIndex, value) ==
  LET parent == (holeIndex - 1) \div 2
  IN  IF holeIndex > topIndex /\ cell_less(At(q, parent), value)
      THEN push_heap_from(Put(q, holeIndex, At(q, parent)), parent, topIndex, value)
      ELSE Put(q, holeIndex, value)

\* __adjust_heap: move the hole down along the larger children, then push
\* value up from there.
RECURSIVE adjust_heap_from(_, _, _, _, _)
adjust_heap_from(q, holeIndex, secondChild, len, value) ==
  IF secondChild < (len - 1) \div 2
  THEN LET r == 2 * (secondChild + 1)
           k == IF cell_less(At(q, r), At(q, r - 1)) THEN r - 1 ELSE r
       IN  adjust_heap_from(Put(q, holeIndex, At(q, k)), k, k, len, value)
  ELSE IF len % 2 = 0 /\ secondChild = (len - 2) \div 2
  THEN LET r == 2 * (secondChild + 1)
       IN  push_heap_from(Put(q, holeIndex, At(q, r - 1)), r - 1, 0, value)
  ELSE push_heap_from(q, holeIndex, 0, value)

\* open.push(v)
OpenPush(q, v) == push_heap_from(Append(q, v), Len(q), 0, v)

\* open.top()
OpenTop(q) == q[1]

\* open.pop()
OpenPop(q) ==
  IF Len(q) <= 1 THEN <<>>
  ELSE adjust_heap_from(SubSeq(q, 1, Len(q) - 1), 0, 0, Len(q) - 1, q[Len(q)])

\* The values a read of g(x,y) can give: the cell's, or anything of `any`
\* when the coordinate lies outside the grid.
Read(g, x, y, any) == IF in_grid(g, x, y) THEN {g.data[<<x, y>>]} ELSE any

Elevs == 0..MaxElev

\* What a read of an elevation outside the grid gives: whatever lies there,
\* taken to be the lowest or the highest elevation.
Garbage == {0, MaxElev}

----------------------------------------------------------------------------
\* find_watersheds

\* The cells the x loop pushes, in order: (x,0) and (x,height-1) for every x.
XPush(w, h) ==
  [i \in 1..(2*w) |-> IF i % 2 = 1 THEN <<(i-1) \div 2, 0>>
                                   ELSE <<(i-1) \div 2, h-1>>]

\* The cells the y loop pushes, in order: (0,y) and (width-1,y) for 0 < y < height-1.
YPush(w, h) ==
  LET n == IF h > 2 THEN h - 2 ELSE 0
  IN  [i \in 1..(2*n) |-> IF i % 2 = 1 THEN <<0, 1 + ((i-1) \div 2)>>
                                       ELSE <<w-1, 1 + ((i-1) \div 2)>>]

SeedList(w, h) == XPush(w, h) \o YPush(w, h)

SeedCells(w, h) == {SeedList(w, h)[i] : i \in 1..Len(SeedList(w, h))}

RECURSIVE PushAll(_, _, _)
PushAll(q, cells, i) ==
  IF i > Len(cells) THEN q ELSE PushAll(OpenPush(q, cells[i]), cells, i + 1)

\* Setting up closed and labels, and adding the edge cells to the open queue.
Seed ==
  /\ fn = "find_watersheds" /\ pc = "start"
  /\ LET w == elevations.width
         h == elevations.height
         list == SeedList(w, h)
         outside == {c \in SeedCells(w, h) : ~in_grid(elevations, c[1], c[2])}
         closed0 == init(copyprops(closed, elevations, FALSE), FALSE)
         labels0 == init([copyprops(labels, elevations, LABEL_NO_DATA)
                            EXCEPT !.no_data = LABEL_NO_DATA], LABEL_NO_DATA)
     IN  \E f \in [outside -> Garbage] :
           LET z(c) == IF c \in outside THEN f[c] ELSE elevations.data[c]
               pushed == [i \in 1..Len(list) |->
                            grid_cellz(list[i][1], list[i][2], z(list[i]))]
           IN  /\ open' = PushAll(open, pushed, 1)
               /\ closed' = [closed0 EXCEPT !.data =
                               [c \in DOMAIN closed0.data |->
                                  (c \in SeedCells(w, h)) \/ closed0.data[c]]]
               /\ labels' = labels0
               /\ oob' = (oob \/ outside # {})
  /\ pc' = "loop"
  /\ UNCHANGED <<fn, elevations, alter_elevations, meander, clabel,
                 processed_cells, pitc, openc, input, discoverer>>
  /\ UNCHANGED idxvars

\* PopLabel without the test that the cell is still unlabelled.
PopLabelAlways(lv, ev) ==
  IF ev # elevations.no_data THEN clabel ELSE lv

\* The label of the popped cell after
\*   if(labels(c.x,c.y)==labels.no_data && elevations(c.x,c.y)!=elevations.no_data)
\*     labels(c.x,c.y)=clabel++;
\* lv and ev are the label and the elevation read at the cell.
PopLabel(lv, ev) ==
  IF lv = labels.no_data /\ ev # elevations.no_data THEN clabel ELSE lv

\* Visit with the assignment elevations(nx,ny)=c.z outside the test
\* elevations(nx,ny)<=c.z.
VisitLowering(st, c, lc, n) ==
  LET nx == c.x + dx[n]
      ny == c.y + dy[n]
      nc == <<nx, ny>>
  IN  IF ~in_grid(st.elevations, nx, ny) THEN st
      ELSE IF st.closed.data[nc] THEN st
      ELSE LET s1 == [st EXCEPT !.labels.data[nc] = lc,
                                !.closed.data[nc] = TRUE,
                                !.discoverer = (nc :> <<c.x, c.y>>) @@ @,
                                !.elevations.data[nc] =
                                   IF alter_elevations THEN c.z ELSE @]
           IN  IF st.elevations.data[nc] <= c.z
               THEN [s1 EXCEPT !.meander = Append(@, grid_cellz(nx, ny, c.z))]
               ELSE [s1 EXCEPT !.open =
                       OpenPush(@, grid_cellz(nx, ny, st.elevations.data[nc]))]

\* Visit without the assignment elevations(nx,ny)=c.z.
VisitKeeping(st, c, lc, n) ==
  LET nx == c.x + dx[n]
      ny == c.y + dy[n]
      nc == <<nx, ny>>
  IN  IF ~in_grid(st.elevations, nx, ny) THEN st
      ELSE IF st.closed.data[nc] THEN st
      ELSE LET s1 == [st EXCEPT !.labels.data[nc] = lc,
                                !.closed.data[nc] = TRUE,
                                !.discoverer = (nc :> <<c.x, c.y>>) @@ @]
           IN  IF st.elevations.data[nc] <= c.z
               THEN [s1 EXCEPT !.meander = Append(@, grid_cellz(nx, ny, c.z))]
               ELSE [s1 EXCEPT !.open =
                       OpenPush(@, grid_cellz(nx, ny, st.elevations.data[nc]))]

\* One pass of the neighbour loop, for neighbour n of the popped cell c whose
\* label is lc; st holds the grids and containers the loop changes.
Visit(st, c, lc, n) ==
  LET nx == c.x + dx[n]
      ny == c.y + dy[n]
      nc == <<nx, ny>>
  IN  IF ~in_grid(st.elevations, nx, ny) THEN st
      ELSE IF st.closed.data[nc] THEN st
      ELSE LET s1 == [st EXCEPT !.labels.data[nc] = lc,
                                !.closed.data[nc] = TRUE,
                                !.discoverer = (nc :> <<c.x, c.y>>) @@ @]
           IN  IF st.elevations.data[nc] <= c.z
               THEN [s1 EXCEPT !.elevations.data[nc] =
                                  IF alter_elevations THEN c.z ELSE @,
                               !.meander = Append(@, grid_cellz(nx, ny, c.z))]
               ELSE [s1 EXCEPT !.open =
                       OpenPush(@, grid_cellz(nx, ny, st.elevations.data[nc]))]

RECURSIVE Neighbours(_, _, _, _)
Neighbours(st, c, lc, n) ==
  IF n > 8 THEN st ELSE Neighbours(Visit(st, c, lc, n), c, lc, n + 1)

\* One iteration of the main loop: pop a cell (the meander stack first),
\* label it, and close its neighbours.
Flood ==
  /\ fn = "find_watersheds" /\ pc = "loop"
  /\ (Len(open) > 0 \/ Len(meander) > 0)
  /\ \E c \in {IF Len(meander) > 0 THEN meander[Len(meander)] ELSE OpenTop(open)} :
     \E lv \in Read(labels, c.x, c.y, {LABEL_NO_DATA, 1}) :
     \E ev \in Read(elevations, c.x, c.y, Garbage) :
       LET inside == in_grid(elevations, c.x, c.y)
           lc == PopLabel(lv, ev)
           st0 == [labels |-> IF inside THEN [labels EXCEPT !.data[<<c.x, c.y>>] = lc]
                                        ELSE labels,
                   closed |-> closed,
                   elevations |-> elevations,
                   meander |-> IF Len(meander) > 0 THEN SubSeq(meander, 1, Len(meander) - 1)
                                                 ELSE meander,
                   open |-> IF Len(meander) > 0 THEN open ELSE OpenPop(open),
                   discoverer |-> discoverer]
           st8 == Neighbours(st0, c, lc, 1)
       IN  /\ pitc' = IF Len(meander) > 0 THEN pitc + 1 ELSE pitc
           /\ openc' = IF Len(meander) > 0 THEN openc ELSE openc + 1
           /\ processed_cells' = processed_cells + 1
           /\ clabel' = IF lc # lv THEN clabel + 1 ELSE clabel
           /\ oob' = (oob \/ ~inside)
           /\ labels' = st8.labels
           /\ closed' = st8.closed
           /\ elevations' = st8.elevations
           /\ meander' = st8.meander
           /\ open' = st8.open
           /\ discoverer' = st8.discoverer
  /\ UNCHANGED <<fn, pc, alter_elevations, input>>
  /\ UNCHANGED idxvars

\* The loop condition fails: the diagnostics are printed and the call returns.
Finish ==
  /\ fn = "find_watersheds" /\ pc = "loop"
  /\ Len(open) = 0 /\ Len(meander) = 0
  /\ pc' = "done"
  /\ UNCHANGED <<fn>> /\ UNCHANGED fwvars /\ UNCHANGED idxvars

\* An access outside the grids is undefined: besides going on with whatever
\* was read, the call can end in a fault.
Fault ==
  /\ fn = "find_watersheds" /\ pc = "loop" /\ oob
  /\ pc' = "crashed"
  /\ UNCHANGED <<fn>> /\ UNCHANGED fwvars /\ UNCHANGED idxvars

\* A call of find_watersheds.  The grid takes at most two elevation levels
\* lo <= hi of 0..MaxElev; no_data is any elevation of that range (so the
\* sentinel lies below, between, above or on the data) or MaxElev+1, which no
\* cell holds.  labels is the caller's grid and closed is freshly constructed.
InitWatersheds ==
  /\ fn = "find_watersheds" /\ pc = "start"
  /\ \E w \in 0..MaxDim, h \in 0..MaxDim :
       /\ w * h <= MaxCells
       /\ \E nd \in 0..(MaxElev + 1) : \E lo \in Elevs, hi \in Elevs :
            /\ lo <= hi
            /\ \E d \in [Cells(w, h) -> {lo, hi}] :
                 /\ elevations = Grid(w, h, nd, d)
                 /\ input = d
  /\ alter_elevations \in BOOLEAN
  /\ labels = EmptyGrid
  /\ closed = EmptyGrid
  /\ open = <<>>
  /\ meander = <<>>
  /\ clabel = 1
  /\ processed_cells = 0 /\ pitc = 0 /\ openc = 0
  /\ discoverer = <<>>
  /\ oob = FALSE
  /\ flow_accumulation = EmptyGrid /\ percent_slope = EmptyGrid
  /\ result = EmptyGrid /\ visited = {}

----------------------------------------------------------------------------
\* d8_SPI and d8_CTI

\* A cell of result: what it was computed from.  The logarithm itself is not
\* evaluated; kind tells which formula was applied, or that the cell holds
\* result.no_data, or that the loop has not written it.
IndexCellValue(kind, fa, ps) == [kind |-> kind, fa |-> fa, ps |-> ps]

Unwritten == IndexCellValue("unwritten", 0, 0)

\* The grid the caller passes as result.
StaleResult == Grid(1, 1, 0, [c \in Cells(1, 1) |-> Unwritten])

\* DimsDiffer with && for ||.
DimsDifferBoth(a, b) == a.width # b.width /\ a.height # b.height

\* if(flow_accumulation.width()!=percent_slope.width() || flow_accumulation.height()!=percent_slope.height())
DimsDiffer(a, b) == a.width # b.width \/ a.height # b.height

\* The guard fails: the diagnostic is printed and exit(-1) ends the process.
IndexExit(f) ==
  /\ fn = f /\ pc = "start"
  /\ DimsDiffer(flow_accumulation, percent_slope)
  /\ pc' = "error"
  /\ UNCHANGED <<fn>> /\ UNCHANGED fwvars /\ UNCHANGED idxvars

\* result.copyprops(flow_accumulation); result.no_data=-1;
IndexSetup(f) ==
  /\ fn = f /\ pc = "start"
  /\ ~DimsDiffer(flow_accumulation, percent_slope)
  /\ result' = [copyprops(result, flow_accumulation, Unwritten)
                  EXCEPT !.no_data = INDEX_NO_DATA]
  /\ pc' = "loop"
  /\ UNCHANGED <<fn, flow_accumulation, percent_slope, visited>>
  /\ UNCHANGED fwvars

\* One cell of the x,y loop; the loop is an omp parallel for, so the cells
\* are done in any order.
IndexCell(f, kind) ==
  /\ fn = f /\ pc = "loop"
  /\ \E c \in DOMAIN flow_accumulation.data \ visited :
       \E fa \in Read(flow_accumulation, c[1], c[2], {0, 1}) :
       \E ps \in Read(percent_slope, c[1], c[2], {0, 1}) :
         /\ result' = [result EXCEPT !.data[c] =
                         IF fa = flow_accumulation.no_data \/ ps = percent_slope.no_data
                         THEN IndexCellValue("no_data", 0, 0)
                         ELSE IndexCellValue(kind, fa, ps)]
         /\ visited' = visited \cup {c}
  /\ UNCHANGED <<fn, pc, flow_accumulation, percent_slope>>
  /\ UNCHANGED fwvars

\* The loop is over: the time is printed and the call returns.
IndexReturn(f) ==
  /\ fn = f /\ pc = "loop"
  /\ visited = DOMAIN flow_accumulation.data
  /\ pc' = "done"
  /\ UNCHANGED <<fn>> /\ UNCHANGED fwvars /\ UNCHANGED idxvars

d8_SPI ==
  \/ IndexExit("d8_SPI")
  \/ IndexSetup("d8_SPI")
  \/ IndexCell("d8_SPI", "SPI")
  \/ IndexReturn("d8_SPI")

d8_CTI ==
  \/ IndexExit("d8_CTI")
  \/ IndexSetup("d8_CTI")
  \/ IndexCell("d8_CTI", "CTI")
  \/ IndexReturn("d8_CTI")

\* The input grids of the indices: 0 is their no_data, 1 a datum.
IndexGrids ==
  UNION {{Grid(s[1], s[2], 0, d) : d \in [Cells(s[1], s[2]) -> {0, 1}]} :
           s \in {t \in (0..MaxIdxDim) \X (0..MaxIdxDim) : t[1] * t[2] <= MaxIdxCells}}

\* A call of d8_SPI or d8_CTI.
InitIndex ==
  /\ fn \in {"d8_SPI", "d8_CTI"} /\ pc = "start"
  /\ flow_accumulation \in IndexGrids
  /\ percent_slope \in IndexGrids
  /\ result = StaleResult
  /\ visited = {}
  /\ elevations = EmptyGrid /\ input = <<>>
  /\ alter_elevations = FALSE
  /\ labels = EmptyGrid
  /\ closed = EmptyGrid
  /\ open = <<>>
  /\ meander = <<>>
  /\ clabel = 1
  /\ processed_cells = 0 /\ pitc = 0 /\ openc = 0
  /\ discoverer = <<>>
  /\ oob = FALSE

Init == InitWatersheds \/ InitIndex

Next == Seed \/ Flood \/ Finish \/ Fault \/ d8_SPI \/ d8_CTI

Spec == Init /\ [][Next]_vars

----------------------------------------------------------------------------
\* The claims.

Watersheds == fn = "find_watersheds"

Returned == Watersheds /\ pc = "done"

NonEmpty == elevations.width >= 1 /\ elevations.height >= 1

AllCells == Cells(elevations.width, elevations.height)

OnBoundary(c) ==
  \/ c[1] = 0 \/ c[2] = 0
  \/ c[1] = elevations.width - 1 \/ c[2] = elevations.height - 1

Adjacent(c, d) ==
  /\ c # d
  /\ c[1] - d[1] \in {-1, 0, 1}
  /\ c[2] - d[2] \in {-1, 0, 1}

IsData(c) == input[c] # elevations.no_data

\* C1: when find_watersheds returns on a grid of at least one cell, every
\* cell whose input elevation is not no_data holds a label >= 1.
C1_DataCellsLabelled ==
  (Returned /\ NonEmpty) =>
    \A c \in AllCells : IsData(c) => labels.data[c] >= 1

\* C2: a cell whose input elevation is no_data is never given a label: its
\* entry of labels stays at the label sentinel throughout the run.
C2_NoDataNeverLabelled ==
  (Watersheds /\ pc \in {"loop", "done"}) =>
    \A c \in AllCells : ~IsData(c) => labels.data[c] = LABEL_NO_DATA

\* The cells joined to the outer boundary by an 8-connected path on which no
\* input elevation exceeds t.
RECURSIVE FloodedAt(_, _)
FloodedAt(S, t) ==
  LET more == {c \in AllCells \ S :
                 input[c] <= t /\ \E d \in S : Adjacent(c, d)}
  IN  IF more = {} THEN S ELSE FloodedAt(S \cup more, t)

\* The spill elevation of c: the least t at which c is joined to the boundary.
SpillElevation(c) ==
  LET ok == {t \in Elevs :
               c \in FloodedAt({b \in AllCells : OnBoundary(b) /\ input[b] <= t}, t)}
  IN  CHOOSE t \in ok : \A u \in ok : t <= u

\* C3: with alter_elevations true on a grid of data cells, the final
\* elevation of every cell is its spill elevation, the least over the paths
\* to the boundary of the highest input elevation on the path.
C3_FilledToSpill ==
  (Returned /\ alter_elevations /\ NonEmpty /\ \A c \in AllCells : IsData(c)) =>
    \A c \in AllCells : elevations.data[c] = SpillElevation(c)

\* C4: with alter_elevations true, at return every cell's elevation is at
\* least its input elevation, and every cell closed in the neighbour loop is
\* at least as high as the cell that discovered it.
C4_FillMonotone ==
  (Returned /\ alter_elevations) =>
    /\ \A c \in AllCells : elevations.data[c] >= input[c]
    /\ \A c \in DOMAIN discoverer :
         elevations.data[c] >= elevations.data[discoverer[c]]

\* A run with alter_elevations that raised a discovered cell above its input.
C4_Witness ==
  /\ Returned /\ alter_elevations
  /\ \E c \in DOMAIN discoverer : elevations.data[c] > input[c]

\* The cells from which a sequence of adjacent cells, never rising, leads to
\* the outer boundary.
RECURSIVE Draining(_)
Draining(S) ==
  LET more == {c \in AllCells \ S :
                 \E d \in S : Adjacent(c, d) /\ elevations.data[d] <= elevations.data[c]}
  IN  IF more = {} THEN S ELSE Draining(S \cup more)

\* C5: with alter_elevations true, at return every cell drains to the edge
\* of the grid along cells of non-increasing final elevation.
C5_AllCellsDrain ==
  (Returned /\ alter_elevations /\ NonEmpty) =>
    Draining({b \in AllCells : OnBoundary(b)}) = AllCells

\* A run with alter_elevations on a grid with a pit: an interior cell lower
\* on input than all of its neighbours.
C5_Witness ==
  /\ Returned /\ alter_elevations
  /\ \E c \in AllCells :
       /\ ~OnBoundary(c)
       /\ \A d \in AllCells : Adjacent(c, d) => input[d] > input[c]

Entries(q, c) == {i \in 1..Len(q) : q[i].x = c[1] /\ q[i].y = c[2]}

\* C6: on a grid of at least one cell, seeding pushes every boundary cell
\* exactly once, keyed by its own elevation, marks it closed, and pushes
\* (and closes) no other cell.
C6_SeededOnce ==
  (Watersheds /\ pc = "loop" /\ processed_cells = 0 /\ NonEmpty) =>
    /\ \A c \in AllCells :
         /\ Cardinality(Entries(open, c)) = (IF OnBoundary(c) THEN 1 ELSE 0)
         /\ closed.data[c] = OnBoundary(c)
         /\ \A i \in Entries(open, c) : open[i].z = elevations.data[c]
    /\ \A i \in 1..Len(open) : <<open[i].x, open[i].y>> \in AllCells

\* C7: on an empty grid no coordinate outside the grid is read or written,
\* nothing is pushed, the loop body never runs, and labels is empty at return.
C7_EmptyGridNoTraversal ==
  (Watersheds /\ (elevations.width = 0 \/ elevations.height = 0)) =>
    /\ ~oob
    /\ Len(open) = 0 /\ Len(meander) = 0
    /\ processed_cells = 0
    /\ pc # "crashed"
    /\ (pc = "done" => DOMAIN labels.data = {})

\* C8: d8_SPI and d8_CTI end in the error outcome when the widths or the
\* heights of their inputs differ, before any cell is read and with result
\* as it was passed; with equal dimensions the error outcome never occurs.
C8_DimensionGuard ==
  (fn \in {"d8_SPI", "d8_CTI"}) =>
    LET differ == \/ flow_accumulation.width # percent_slope.width
                  \/ flow_accumulation.height # percent_slope.height
    IN  /\ differ => (pc \in {"start", "error"} /\ visited = {} /\ result = StaleResult)
        /\ ~differ => pc # "error"

\* A call that ended in the error outcome.
C8_Witness ==
  /\ fn \in {"d8_SPI", "d8_CTI"} /\ pc = "error"
  /\ flow_accumulation.width = percent_slope.width
  /\ flow_accumulation.height # percent_slope.height

\* A step keeps every label that is >= 1, and writes a label only on a cell
\* at the sentinel: the popped cell, which takes the counter's value, or a
\* cell closed in this step, which takes its discoverer's label.
LabelsWrittenOnce ==
  \A c \in DOMAIN labels.data :
    /\ c \in DOMAIN labels'.data
    /\ labels'.data[c] # labels.data[c] =>
         /\ labels.data[c] = LABEL_NO_DATA
         /\ \/ /\ closed.data[c]
               /\ labels'.data[c] = clabel /\ clabel' = clabel + 1
            \/ /\ ~closed.data[c] /\ closed'.data[c]
               /\ labels'.data[c] = labels'.data[discoverer'[c]]

LabelsInUse == {labels.data[c] : c \in DOMAIN labels.data} \ {LABEL_NO_DATA}

\* C9: once a cell's label is >= 1 it is never written with another value,
\* labels are set only at the pop of an unlabelled cell (next counter value)
\* or on closing a neighbour (the discoverer's label), and the labels in use
\* at return are exactly 1..k for some k.
C9_LabelsAssignedOnce ==
  /\ [][Watersheds => LabelsWrittenOnce]_vars
  /\ [](Returned => \E k \in 0..Cardinality(AllCells) : LabelsInUse = 1..k)

\* A run that returned with at least two watersheds and an inherited label.
C9_Witness ==
  /\ Returned /\ clabel >= 3
  /\ \E c \in DOMAIN discoverer : labels.data[c] >= 1

\* C10: on a grid of at least one cell the loop ends with open and meander
\* empty and every cell closed, having popped every cell exactly once, and
\* the processed-cell count never exceeds width x height.
C10_EveryCellPoppedOnce ==
  (Watersheds /\ NonEmpty) =>
    /\ processed_cells <= elevations.width * elevations.height
    /\ pc = "done" =>
         /\ Len(open) = 0 /\ Len(meander) = 0
         /\ \A c \in AllCells : closed.data[c]
         /\ processed_cells = elevations.width * elevations.height

====
